---- MODULE Spec2Model ----
(***************************************************************************)
(* SublimeLinter3, sublimelinter.py: the event listener that decides when  *)
(* a view is linted and which lint results are applied to it.              *)
(*                                                                         *)
(* The plugin state (loaded_views, linted_views, view_syntax,              *)
(* last_hit_times) and every handler of class SublimeLinter are modelled   *)
(* from the source.  The collaborators the file imports (persist.queue,    *)
(* Linter, HighlightSet, persist) are modelled from their documented       *)
(* contract.  All handlers run in the single UI context, so each handler   *)
(* call is one atomic step; an analysis runs outside it and its completion *)
(* is delivered later, in any order.                                       *)
(*                                                                         *)
(* A handler is an operator from a state record to a state record, so that *)
(* a handler calling another handler is ordinary composition.              *)
(***************************************************************************)
EXTENDS Integers, Sequences, FiniteSets, TLC

VARIABLES
    alive,              \* ids of the views that are open in the editor
    view_size,          \* view.size() of each view: 0 is the empty buffer
    view_syn,           \* persist.syntax(view): the view's current syntax
    cursor,             \* line of the first selection, -1 when there is none
    lint_mode,          \* persist.settings.get('lint_mode')
    show_errors_on_save,\* persist.settings.get('show_errors_on_save')
    loaded_views,       \* self.loaded_views
    linted_views,       \* self.linted_views
    view_syntax,        \* self.view_syntax: dict vid -> syntax
    last_hit_times,     \* self.last_hit_times: dict vid -> timestamp
    persist_linters,    \* persist.linters: dict vid -> the bound linters
    persist_errors,     \* persist.errors: dict vid -> (line -> errors)
    persist_highlights, \* persist.highlights: dict vid -> HighlightSet
    drawn,              \* the marks drawn in each view
    status,             \* the 'sublimelinter' status text of each view
    clock,              \* the last timestamp persist.queue.hit minted
    pending,            \* the queue's debounced requests: <<vid, timestamp>>
    inflight,           \* analyses started and not yet completed, oldest first
    hit_empty,          \* history: views hit while empty and still empty
    last                \* history: the handler call that produced this state

vars == <<alive, view_size, view_syn, cursor, lint_mode, show_errors_on_save,
          loaded_views, linted_views, view_syntax, last_hit_times,
          persist_linters, persist_errors, persist_highlights, drawn, status,
          clock, pending, inflight, hit_empty, last>>

---------------------------------------------------------------------------
(* Bounds of the model *)

\* persist.queue.hit is called at most MaxTime times in a behaviour.
MaxTime == 2

\* At most MaxInflight analyses are in flight at once.
MaxInflight == 2

---------------------------------------------------------------------------
(* Values *)

Views == {1, 2}

\* "plain" is a syntax no linter applies to.
Syntaxes == {"python", "plain"}

LintModes == {"background", "load/save", "save only", "manual"}

Lines == {0, 1}

\* lineno = -1 is on_selection_modified_async's "no selection" (IndexError).
CursorLines == {-1} \cup Lines

\* hit_time=None, the default of lint(self, view_id, hit_time=None, ...).
None == -1

\* The linters of each syntax, in the order lint_view hands them over.
LintersFor(syntax) ==
    IF syntax = "python" THEN <<"pep8", "pyflakes">> ELSE <<>>

\* Python dicts as functions on the set of their keys.
Put(d, k, v) == [x \in (DOMAIN d) \cup {k} |-> IF x = k THEN v ELSE d[x]]

Del(d, k) == [x \in (DOMAIN d) \ {k} |-> d[x]]

Get(d, k, default) == IF k \in DOMAIN d THEN d[k] ELSE default

EmptyDict == [x \in {} |-> 0]

\* A linter right after Linter.reset / linter.clear(): no marks, no errors.
CleanLinter(name) == [name |-> name, highlight |-> {}, errors |-> EmptyDict]

\* What an analysis leaves in a linter that found something: one error
\* (column, message) and one mark.  pep8 and pyflakes report on the same
\* line, so their errors meet in one entry of the merged dict.
DirtyLinter(name) ==
    LET col == IF name = "pep8" THEN 4 ELSE 0
    IN  [name |-> name, highlight |-> {<<0, col>>},
         errors |-> (0 :> << <<col, name>> >>)]

\* view.erase_status('sublimelinter'): no status text.
NoStatus ==
    [kind |-> "none", first |-> 0, last |-> 0, count |-> 0, plural |-> FALSE,
     msgs |-> <<>>]

\* The history record of a handler call: the handler and its view; the views
\* hit() ran on, those it minted a timestamp for, and whether a hit replaced
\* a pending request; for highlight(), its hit_time, whether it applied the
\* results, whether results of a request started later had been applied
\* before, and whether the view was hit after the request was started;
\* whether the handler raised; and the views check_syntax() returned True for.
NoCall ==
    [op |-> "init", vid |-> 0, hit_time |-> None, committed |-> FALSE,
     late |-> FALSE, newer |-> FALSE, hits |-> {}, minted |-> {},
     folded |-> FALSE, raised |-> FALSE, changed |-> {}]

\* The state as one record, and its assignment to the primed variables.
St ==
    [alive |-> alive, view_size |-> view_size, view_syn |-> view_syn,
     cursor |-> cursor, lint_mode |-> lint_mode,
     show_errors_on_save |-> show_errors_on_save,
     loaded_views |-> loaded_views, linted_views |-> linted_views,
     view_syntax |-> view_syntax, last_hit_times |-> last_hit_times,
     persist_linters |-> persist_linters, persist_errors |-> persist_errors,
     persist_highlights |-> persist_highlights, drawn |-> drawn,
     status |-> status, clock |-> clock, pending |-> pending,
     inflight |-> inflight, hit_empty |-> hit_empty, last |-> last]

Becomes(s) ==
    /\ s.clock <= MaxTime
    /\ Len(s.inflight) <= MaxInflight
    /\ alive' = s.alive
    /\ view_size' = s.view_size
    /\ view_syn' = s.view_syn
    /\ cursor' = s.cursor
    /\ lint_mode' = s.lint_mode
    /\ show_errors_on_save' = s.show_errors_on_save
    /\ loaded_views' = s.loaded_views
    /\ linted_views' = s.linted_views
    /\ view_syntax' = s.view_syntax
    /\ last_hit_times' = s.last_hit_times
    /\ persist_linters' = s.persist_linters
    /\ persist_errors' = s.persist_errors
    /\ persist_highlights' = s.persist_highlights
    /\ drawn' = s.drawn
    /\ status' = s.status
    /\ clock' = s.clock
    /\ pending' = s.pending
    /\ inflight' = s.inflight
    /\ hit_empty' = s.hit_empty
    /\ last' = s.last

\* The handlers the history names; any other call is recorded as "handler".
Named == {"highlight", "on_close", "queue_run", "on_modified", "check_syntax"}

\* The record of a handler call that starts now.
Call(s, op, vid) ==
    IF op \in Named
    THEN [s EXCEPT !.last = [NoCall EXCEPT !.op = op, !.vid = vid]]
    ELSE [s EXCEPT !.last = [NoCall EXCEPT !.op = "handler"]]

---------------------------------------------------------------------------
(* The collaborators: persist, persist.queue, Linter, HighlightSet *)

\* persist.syntax(view)
persist_syntax(s, view) == s.view_syn[view]

\* Linter.get_view(view_id): None once the view is closed.
Linter_get_view(s, vid) == vid \in s.alive

\* Linter.get_linters(vid)
Linter_get_linters(s, vid) == Get(s.persist_linters, vid, <<>>)

\* The linter of that name among `linters`, or a fresh one.
LinterNamed(linters, name) ==
    IF \E i \in 1..Len(linters) : linters[i].name = name
    THEN linters[CHOOSE i \in 1..Len(linters) : linters[i].name = name]
    ELSE CleanLinter(name)

\* Linter.assign(view, reassign): binds the linters of the view's syntax;
\* a view whose syntax has no linter is not in persist.linters.
Linter_assign(s, view, reassign) ==
    LET names == LintersFor(persist_syntax(s, view))
        old   == Linter_get_linters(s, view)
        bound == [i \in 1..Len(names) |->
                    IF reassign THEN CleanLinter(names[i])
                    ELSE LinterNamed(old, names[i])]
    IN  IF names = <<>>
        THEN [s EXCEPT !.persist_linters = Del(@, view)]
        ELSE [s EXCEPT !.persist_linters = Put(@, view, bound)]

\* Linter.clear_view(view): what was applied to the view is discarded at
\* once: its marks, its stored errors and highlights, its status text.
Linter_clear_view(s, view) ==
    [s EXCEPT !.drawn[view] = {},
              !.status[view] = NoStatus,
              !.persist_errors = Del(@, view),
              !.persist_highlights = Del(@, view)]

\* persist.view_did_close(vid): nothing is kept for a closed view.
persist_view_did_close(s, vid) ==
    [s EXCEPT !.persist_errors = Del(@, vid),
              !.persist_highlights = Del(@, vid),
              !.persist_linters = Del(@, vid),
              !.drawn[vid] = {},
              !.status[vid] = NoStatus]

\* persist.queue.hit(view): mints a timestamp greater than every earlier one
\* and leaves one pending request for the view, carrying that timestamp.
\* History: the view's analyses in flight now have a newer hit.
queue_hit(s, view) ==
    LET t == s.clock + 1
        had == \E p \in s.pending : p[1] = view
    IN  [st |-> [s EXCEPT !.clock = t,
                          !.pending = {p \in @ : p[1] # view} \cup {<<view, t>>},
                          !.inflight = [i \in 1..Len(@) |->
                                          IF @[i].vid = view
                                          THEN [@[i] EXCEPT !.newer = TRUE]
                                          ELSE @[i]],
                          !.last.minted = @ \cup {view},
                          !.last.folded = @ \/ had],
         ret |-> t]

\* Linter.lint_view(view_id, filename, code, sections, hit_time, callback):
\* starts the analysis by the view's linters; it completes later.  History:
\* `late` becomes true once results of a request started after this one
\* have been applied, `newer` once the view is hit again.
Linter_lint_view(s, vid, hit_time) ==
    LET bound == Linter_get_linters(s, vid)
        names == [i \in 1..Len(bound) |-> bound[i].name]
    IN  [s EXCEPT !.inflight = Append(@, [vid |-> vid, hit_time |-> hit_time,
                                          linters |-> names, late |-> FALSE,
                                          newer |-> FALSE])]

\* The marks HighlightSet.draw(view) adds to the view: those of every
\* highlight of the set.  HighlightSet.clear(view) removes the marks drawn.
Marks(highlights) == UNION {highlights[i] : i \in 1..Len(highlights)}

---------------------------------------------------------------------------
(* on_selection_modified_async: the status text *)

\* sorted(list(errors))
RECURSIVE SortedKeys(_)
SortedKeys(keys) ==
    IF keys = {} THEN <<>>
    ELSE LET least == CHOOSE k \in keys : \A j \in keys : k <= j
         IN  <<least>> \o SortedKeys(keys \ {least})

\* sum(counts[0:index])
RECURSIVE SumTo(_, _)
SumTo(counts, index) ==
    IF index = 0 THEN 0 ELSE counts[index] + SumTo(counts, index - 1)

\* lines.index(lineno) counted from 1: one line too many is summed.
IndexOf_from_one(lines, lineno) == CHOOSE i \in 1..Len(lines) : lines[i] = lineno

\* lines.index(lineno), counted from 0
IndexOf(lines, lineno) == (CHOOSE i \in 1..Len(lines) : lines[i] = lineno) - 1

\* sorted(errors[lineno], key=lambda error: error[0]): a stable sort
RECURSIVE SortByColumn(_)
SortByColumn(errs) ==
    IF errs = <<>> THEN <<>>
    ELSE LET i == CHOOSE k \in 1..Len(errs) :
                    /\ \A j \in 1..Len(errs) : errs[k][1] <= errs[j][1]
                    /\ \A j \in 1..(k - 1) : errs[j][1] # errs[k][1]
         IN  <<errs[i]>> \o
             SortByColumn([j \in 1..(Len(errs) - 1) |->
                             IF j < i THEN errs[j] ELSE errs[j + 1]])

\* The status text lines 276-301 build from a non-empty errors dict:
\*   "range": '{first}-{last} of {count} errors: ' + '; '.join(msgs)
\*   "one":   '{first} of {count} errors: ' + '; '.join(msgs)
\*   "error": 'Error: ' + '; '.join(msgs)
\*   "count": '{count} error{s}'
StatusText(errors, lineno) ==
    LET lines  == SortedKeys(DOMAIN errors)
        counts == [i \in 1..Len(lines) |-> Len(errors[lines[i]])]
        count  == SumTo(counts, Len(counts))
        plural == count > 1
    IN  IF lineno \in DOMAIN errors
        THEN LET sorted == SortByColumn(errors[lineno])
                 line_errors == [i \in 1..Len(sorted) |-> sorted[i][2]]
                 first == SumTo(counts, IndexOf(lines, lineno)) + 1
             IN  IF plural
                 THEN IF Len(line_errors) > 1
                      THEN [kind |-> "range", first |-> first,
                            last |-> first + Len(line_errors) - 1,
                            count |-> count, plural |-> plural,
                            msgs |-> line_errors]
                      ELSE [kind |-> "one", first |-> first, last |-> first,
                            count |-> count, plural |-> plural,
                            msgs |-> line_errors]
                 ELSE [kind |-> "error", first |-> 0, last |-> 0,
                       count |-> count, plural |-> plural, msgs |-> line_errors]
        ELSE [kind |-> "count", first |-> 0, last |-> 0, count |-> count,
              plural |-> plural, msgs |-> <<>>]

\* on_selection_modified_async() without the else of lines 304-305.
on_selection_modified_keeps_status(s, view) ==
    LET lineno == s.cursor[view]
    IN  IF view \in DOMAIN s.persist_errors /\ DOMAIN s.persist_errors[view] # {}
        THEN [s EXCEPT !.status[view] = StatusText(s.persist_errors[view], lineno)]
        ELSE s

on_selection_modified_async(s, view) ==
    LET lineno == s.cursor[view]
    IN  IF view \in DOMAIN s.persist_errors
        THEN LET errors == s.persist_errors[view]
             IN  IF DOMAIN errors # {}
                 THEN [s EXCEPT !.status[view] = StatusText(errors, lineno)]
                 ELSE [s EXCEPT !.status[view] = NoStatus]
        ELSE s

---------------------------------------------------------------------------
(* class SublimeLinter *)

clear(s, view) == Linter_clear_view(s, view)

\* Returns the new state and whether the syntax has changed.
\* check_syntax() without line 174: the syntax it sees is never recorded.
check_syntax_forgets(s, view) ==
    LET vid == view
        syntax == persist_syntax(s, view)
    IN  IF vid \notin DOMAIN s.view_syntax \/ s.view_syntax[vid] # syntax
        THEN LET s1 == [s EXCEPT !.last.changed = @ \cup {vid}]
                 s2 == Linter_assign(s1, view, TRUE)
             IN  [st |-> clear(s2, view), ret |-> TRUE]
        ELSE [st |-> s, ret |-> FALSE]

check_syntax(s, view) ==
    LET vid == view
        syntax == persist_syntax(s, view)
    IN  IF vid \notin DOMAIN s.view_syntax \/ s.view_syntax[vid] # syntax
        THEN LET s1 == [s EXCEPT !.view_syntax = Put(@, vid, syntax),
                                 !.last.changed = @ \cup {vid}]
                 s2 == Linter_assign(s1, view, TRUE)
             IN  [st |-> clear(s2, view), ret |-> TRUE]
        ELSE [st |-> s, ret |-> FALSE]

\* hit() without lines 156-160: the empty view is queued like any other.
hit_empty_enqueued(s, view) ==
    LET vid == view
        s1 == check_syntax(s, view).st
        s2 == [s1 EXCEPT !.linted_views = @ \cup {vid},
                         !.last.hits = @ \cup {vid}]
        q == queue_hit(s2, view)
    IN  [q.st EXCEPT !.last_hit_times = Put(@, vid, q.ret)]

hit(s, view) ==
    LET vid == view
        s1 == check_syntax(s, view).st
        s2 == [s1 EXCEPT !.linted_views = @ \cup {vid},
                         !.last.hits = @ \cup {vid}]
    IN  IF s2.view_size[view] = 0
        THEN LET bound == Linter_get_linters(s2, vid)
                 cleared == [i \in 1..Len(bound) |-> CleanLinter(bound[i].name)]
             IN  [s2 EXCEPT !.persist_linters =
                                IF vid \in DOMAIN @ THEN Put(@, vid, cleared) ELSE @,
                            !.hit_empty = @ \cup {vid}]
        ELSE LET q == queue_hit(s2, view)
             IN  [q.st EXCEPT !.last_hit_times = Put(@, vid, q.ret)]

\* util.apply_to_all_views(apply), over the open views in the order given.
RECURSIVE lint_all_views(_, _)
lint_all_views(s, order) ==
    IF order = <<>> THEN s
    ELSE LET view == Head(order)
             s1 == IF view \in DOMAIN s.persist_linters THEN hit(s, view) ELSE s
         IN  lint_all_views(s1, Tail(order))

\* lint() that does not hand its hit_time on to Linter.lint_view.
lint_drops_hit_time(s, view_id, hit_time) ==
    IF ~Linter_get_view(s, view_id)
    THEN s
    ELSE Linter_lint_view(s, view_id, None)

lint(s, view_id, hit_time) ==
    IF ~Linter_get_view(s, view_id)
    THEN s
    ELSE Linter_lint_view(s, view_id, hit_time)

\* errors.setdefault(line, []).extend(errs) for every line of one linter
AddErrors(errors, linter_errors) ==
    [line \in (DOMAIN errors) \cup (DOMAIN linter_errors) |->
        Get(errors, line, <<>>) \o Get(linter_errors, line, <<>>)]

\* The loop of lines 130-136, from linter i on.  Every linter that has run
\* holds a Highlight object, so `if linter.highlight` holds for each.
RECURSIVE Merge(_, _, _)
Merge(linters, i, acc) ==
    IF i > Len(linters) THEN acc
    ELSE LET linter == linters[i]
             hl == Append(acc.highlights, linter.highlight)
             er == IF DOMAIN linter.errors # {}
                   THEN AddErrors(acc.errors, linter.errors)
                   ELSE acc.errors
         IN  Merge(linters, i + 1, [highlights |-> hl, errors |-> er])

\* highlight() whose line 140 compares with >=: the result that carries the
\* view's latest hit time is discarded too.
highlight_drops_latest(s, view, linters, hit_time) ==
    LET vid == view
        merged == Merge(linters, 1, [highlights |-> <<>>, errors |-> EmptyDict])
        s1 == [s EXCEPT !.persist_highlights = Put(@, vid, merged.highlights)]
    IN  IF hit_time # None /\ Get(s1.last_hit_times, vid, 0) >= hit_time
        THEN s1
        ELSE LET s2 == [s1 EXCEPT !.drawn[view] = {}]
                 s3 == [s2 EXCEPT !.drawn[view] = @ \cup Marks(merged.highlights)]
                 s4 == [s3 EXCEPT !.persist_errors = Put(@, vid, merged.errors),
                                  !.last.committed = TRUE]
             IN  on_selection_modified_async(s4, view)

\* highlight() without line 143: the new set is drawn over the old marks.
highlight_draws_over(s, view, linters, hit_time) ==
    LET vid == view
        merged == Merge(linters, 1, [highlights |-> <<>>, errors |-> EmptyDict])
        s1 == [s EXCEPT !.persist_highlights = Put(@, vid, merged.highlights)]
    IN  IF hit_time # None /\ Get(s1.last_hit_times, vid, 0) > hit_time
        THEN s1
        ELSE LET s3 == [s1 EXCEPT !.drawn[view] = @ \cup Marks(merged.highlights)]
                 s4 == [s3 EXCEPT !.persist_errors = Put(@, vid, merged.errors),
                                  !.last.committed = TRUE]
             IN  on_selection_modified_async(s4, view)

highlight(s, view, linters, hit_time) ==
    LET vid == view
        merged == Merge(linters, 1, [highlights |-> <<>>, errors |-> EmptyDict])
        s1 == [s EXCEPT !.persist_highlights = Put(@, vid, merged.highlights)]
    IN  IF hit_time # None /\ Get(s1.last_hit_times, vid, 0) > hit_time
        THEN s1
        ELSE LET s2 == [s1 EXCEPT !.drawn[view] = {}]
                 s3 == [s2 EXCEPT !.drawn[view] = @ \cup Marks(merged.highlights)]
                 s4 == [s3 EXCEPT !.persist_errors = Put(@, vid, merged.errors),
                                  !.last.committed = TRUE]
             IN  on_selection_modified_async(s4, view)

\* on_open_settings only copies user settings; it touches none of this state.
on_new(s, view) ==
    LET vid == view
        s1 == [s EXCEPT !.loaded_views = @ \cup {vid},
                        !.view_syntax = Put(@, vid, persist_syntax(s, view))]
    IN  Linter_assign(s1, view, FALSE)

on_load(s, view) == on_new(s, view)

on_activated(s, view) ==
    LET s1 == check_syntax(s, view).st
        view_id == view
        s2 == IF view_id \notin s1.linted_views
              THEN LET s11 == IF view_id \notin s1.loaded_views
                              THEN on_new(s1, view) ELSE s1
                   IN  IF s11.lint_mode \in {"background", "load/save"}
                       THEN hit(s11, view) ELSE s11
              ELSE s1
    IN  on_selection_modified_async(s2, view)

\* on_modified() that calls check_syntax() for every view, bound or not.
on_modified_checks_always(s, view) ==
    LET cs == check_syntax(s, view)
        s1 == cs.st
    IN  IF cs.ret \/ s1.lint_mode = "background"
        THEN hit(s1, view)
        ELSE clear(s1, view)

on_modified(s, view) ==
    LET unbound == view \notin DOMAIN s.persist_linters
        cs == check_syntax(s, view)
        syntax_changed == unbound /\ cs.ret
        s1 == IF unbound THEN cs.st ELSE s
    IN  IF unbound /\ ~cs.ret
        THEN s1
        ELSE IF syntax_changed \/ s1.lint_mode = "background"
             THEN hit(s1, view)
             ELSE clear(s1, view)

\* `saved` tells which file the view holds: the project file, the plugin's
\* own .sublimelinterrc, another .sublimelinterrc, or any other file.
\* run_command('sublimelinter_show_all_errors') touches none of this state.
on_post_save(s, view, saved, order) ==
    IF saved = "project" THEN lint_all_views(s, order)
    ELSE IF saved = "main_rc" THEN s
    ELSE IF saved = "other_rc" THEN lint_all_views(s, order)
    ELSE LET cs == check_syntax(s, view)
             vid == view
             s1 == cs.st
             mode == s1.lint_mode
             show_errors == s1.show_errors_on_save
         IN  IF cs.ret
             THEN LET s2 == clear(s1, view)
                  IN  IF vid \in DOMAIN s2.persist_linters /\ mode # "manual"
                      THEN lint(s2, vid, None)
                      ELSE s2
             ELSE IF show_errors \/ mode \in {"load/save", "save only"}
                  THEN lint(s1, vid, None)
                  ELSE s1

\* set.remove(x) and del d[x] raise KeyError when x is absent.
Remove(set, x) == [val |-> set \ {x}, raised |-> x \notin set]

DelKey(d, k) == [val |-> Del(d, k), raised |-> k \notin DOMAIN d]

\* on_close() without the membership tests of lines 355-365.
on_close_unguarded(s, view) ==
    LET vid == view
        a == Remove(s.loaded_views, vid)
        b == Remove(s.linted_views, vid)
        c == DelKey(s.view_syntax, vid)
        d == DelKey(s.last_hit_times, vid)
        s1 == [s EXCEPT !.loaded_views = a.val,
                        !.linted_views = b.val,
                        !.view_syntax = c.val,
                        !.last_hit_times = d.val,
                        !.last.raised = a.raised \/ b.raised \/ c.raised \/ d.raised]
    IN  persist_view_did_close(s1, vid)

on_close(s, view) ==
    LET vid == view
        a == IF vid \in s.loaded_views
             THEN Remove(s.loaded_views, vid)
             ELSE [val |-> s.loaded_views, raised |-> FALSE]
        b == IF vid \in s.linted_views
             THEN Remove(s.linted_views, vid)
             ELSE [val |-> s.linted_views, raised |-> FALSE]
        c == IF vid \in DOMAIN s.view_syntax
             THEN DelKey(s.view_syntax, vid)
             ELSE [val |-> s.view_syntax, raised |-> FALSE]
        d == IF vid \in DOMAIN s.last_hit_times
             THEN DelKey(s.last_hit_times, vid)
             ELSE [val |-> s.last_hit_times, raised |-> FALSE]
        s1 == [s EXCEPT !.loaded_views = a.val,
                        !.linted_views = b.val,
                        !.view_syntax = c.val,
                        !.last_hit_times = d.val,
                        !.last.raised = a.raised \/ b.raised \/ c.raised \/ d.raised]
    IN  persist_view_did_close(s1, vid)

---------------------------------------------------------------------------
(* The steps *)

\* The views in every order (the order apply_to_all_views visits them in).
Orders ==
    {o \in UNION {[1..n -> Views] : n \in 0..Cardinality(Views)} :
        /\ \A i, j \in 1..Len(o) : i # j => o[i] # o[j]
        /\ {o[i] : i \in 1..Len(o)} = alive}

\* The user changes the settings; persist.load_settings() picks them up.
LoadSettings(mode, show) ==
    /\ <<mode, show>> # <<lint_mode, show_errors_on_save>>
    /\ Becomes([Call(St, "settings", 0) EXCEPT
                    !.lint_mode = mode, !.show_errors_on_save = show])

\* The user gives the view another syntax.
SetSyntax(view, syntax) ==
    /\ view \in alive
    /\ syntax # view_syn[view]
    /\ Becomes([Call(St, "set_syntax", 0) EXCEPT !.view_syn[view] = syntax])

\* The editor reports a buffer when it creates it, before anything else.
OnNew(view) ==
    /\ view \in alive
    /\ view \notin loaded_views \cup linted_views \cup DOMAIN view_syntax
    /\ Becomes(on_new(Call(St, "on_new", view), view))

\* The file of the view finished loading.
OnLoad(view) ==
    /\ view \in alive
    /\ Becomes(on_load(Call(St, "on_load", view), view))

OnActivated(view) ==
    /\ view \in alive
    /\ Becomes(on_activated(Call(St, "on_activated", view), view))

\* The text changed, to `size` characters, and the editor reports it.
OnModified(view, size) ==
    /\ view \in alive
    /\ LET s == [Call(St, "on_modified", view) EXCEPT
                    !.view_size[view] = size,
                    !.hit_empty = IF size = 0 THEN @ ELSE @ \ {view}]
       IN  Becomes(on_modified(s, view))

\* The cursor moved to `lineno`, and the editor reports it.
OnSelectionModified(view, lineno) ==
    /\ view \in alive
    /\ LET s == [Call(St, "on_selection_modified_async", view) EXCEPT
                    !.cursor[view] = lineno]
       IN  Becomes(on_selection_modified_async(s, view))

OnPostSave(view, saved, order) ==
    /\ view \in alive
    /\ Becomes(on_post_save(Call(St, "on_post_save", view), view, saved, order))

OnClose(view) ==
    /\ view \in alive
    /\ LET s == [Call(St, "on_close", view) EXCEPT
                    !.alive = @ \ {view}, !.hit_empty = @ \ {view}]
       IN  Becomes(on_close(s, view))

\* check_syntax(view) on its own.
CheckSyntax(view) ==
    /\ view \in alive
    /\ Becomes(check_syntax(Call(St, "check_syntax", view), view).st)

\* An explicit lint of the view: hit() called from outside the listener.
Hit(view) ==
    /\ view \in alive
    /\ Becomes(hit(Call(St, "hit", view), view))

\* The queue, started with persist.queue.start(self.lint), runs a pending
\* request once its delay is over: lint(view_id, timestamp).
QueueRun(p) ==
    /\ p \in pending
    /\ LET s == [Call(St, "queue_run", p[1]) EXCEPT
                    !.pending = @ \ {p}, !.last.hit_time = p[2]]
       IN  Becomes(lint(s, p[1], p[2]))

\* The analysis inflight[i] completes: the linters in `dirty` found
\* something, the others nothing, and lint_view calls back
\* highlight(view, linters, hit_time).
Complete(i, dirty) ==
    /\ i \in 1..Len(inflight)
    /\ LET req == inflight[i]
           vid == req.vid
           linters == [j \in 1..Len(req.linters) |->
                         IF req.linters[j] \in dirty
                         THEN DirtyLinter(req.linters[j])
                         ELSE CleanLinter(req.linters[j])]
           bound == Get(persist_linters, vid, <<>>)
           now == [j \in 1..Len(bound) |-> LinterNamed(linters, bound[j].name)]
           s0 == [Call(St, "highlight", vid) EXCEPT
                    !.last.hit_time = req.hit_time,
                    !.last.late = req.late,
                    !.last.newer = req.newer,
                    !.inflight = [j \in 1..(Len(@) - 1) |->
                                    IF j < i THEN @[j] ELSE @[j + 1]],
                    !.persist_linters =
                        IF vid \in DOMAIN @ THEN Put(@, vid, now) ELSE @]
           s1 == highlight(s0, vid, linters, req.hit_time)
           \* History: the requests of this view started before this one
           \* are late once this one's results are applied.
           s2 == IF s1.last.committed
                 THEN [s1 EXCEPT !.inflight =
                         [j \in 1..Len(@) |->
                            IF j < i /\ @[j].vid = vid
                            THEN [@[j] EXCEPT !.late = TRUE]
                            ELSE @[j]]]
                 ELSE s1
       IN  /\ dirty \subseteq {req.linters[j] : j \in 1..Len(req.linters)}
           /\ Becomes(s2)

\* The state __init__ leaves: nothing tracked, the queue started and, when
\* there is a window, on_activated(window.active_view()) done.
Fresh(open) ==
    [alive |-> open,
     view_size |-> [v \in Views |-> 1],
     view_syn |-> [v \in Views |-> "python"],
     cursor |-> [v \in Views |-> -1],
     lint_mode |-> "background",
     show_errors_on_save |-> FALSE,
     loaded_views |-> {}, linted_views |-> {},
     view_syntax |-> EmptyDict, last_hit_times |-> EmptyDict,
     persist_linters |-> EmptyDict, persist_errors |-> EmptyDict,
     persist_highlights |-> EmptyDict,
     drawn |-> [v \in Views |-> {}],
     status |-> [v \in Views |-> NoStatus],
     clock |-> 0, pending |-> {}, inflight |-> <<>>,
     hit_empty |-> {}, last |-> NoCall]

Is(s) ==
    /\ alive = s.alive
    /\ view_size = s.view_size
    /\ view_syn = s.view_syn
    /\ cursor = s.cursor
    /\ lint_mode = s.lint_mode
    /\ show_errors_on_save = s.show_errors_on_save
    /\ loaded_views = s.loaded_views
    /\ linted_views = s.linted_views
    /\ view_syntax = s.view_syntax
    /\ last_hit_times = s.last_hit_times
    /\ persist_linters = s.persist_linters
    /\ persist_errors = s.persist_errors
    /\ persist_highlights = s.persist_highlights
    /\ drawn = s.drawn
    /\ status = s.status
    /\ clock = s.clock
    /\ pending = s.pending
    /\ inflight = s.inflight
    /\ hit_empty = s.hit_empty
    /\ last = s.last

\* One view is open.
Init ==
    \/ Is(Fresh({1}))
    \/ Is(on_activated(Call(Fresh({1}), "on_activated", 1), 1))

\* What a completed analysis may report: nothing, or something by every linter.
Findings == {{}, {"pep8", "pyflakes"}}

\* show_errors_on_save keeps its default here: when it is set, on_post_save
\* lints as it does in 'save only' mode, which the mode changes reach.

Next ==
    \/ \E mode \in LintModes : LoadSettings(mode, show_errors_on_save)
    \/ \E view \in Views, syntax \in Syntaxes : SetSyntax(view, syntax)
    \/ \E view \in Views : OnNew(view)
    \/ \E view \in Views : OnLoad(view)
    \/ \E view \in Views : OnActivated(view)
    \/ \E view \in Views, size \in {0, 1} : OnModified(view, size)
    \/ \E view \in Views, saved \in {"project", "main_rc", "other_rc", "file"},
          order \in Orders : OnPostSave(view, saved, order)
    \/ \E view \in Views : OnClose(view)
    \/ \E view \in Views : Hit(view)
    \/ \E p \in pending : QueueRun(p)
    \/ \E i \in 1..MaxInflight, dirty \in Findings : Complete(i, dirty)

Spec == Init /\ [][Next]_vars

\* Two views are open, in background mode, and both are edited, linted,
\* re-linted together and closed.
InitTwo == Is(Fresh(Views))

NextTwo ==
    \/ \E view \in Views, syntax \in Syntaxes : SetSyntax(view, syntax)
    \/ \E view \in Views : OnLoad(view)
    \/ \E view \in Views : OnActivated(view)
    \/ \E view \in Views, size \in {0, 1} : OnModified(view, size)
    \/ \E view \in Views, order \in Orders : OnPostSave(view, "project", order)
    \/ \E view \in Views : OnClose(view)
    \/ \E p \in pending : QueueRun(p)
    \/ \E i \in 1..MaxInflight : Complete(i, {"pep8", "pyflakes"})

SpecTwo == InitTwo /\ [][NextTwo]_vars

\* check_syntax() on a view whose syntax is changed, recorded by on_load and
\* checked again, while the view is linted.
InitSyntax == Is(Fresh({1}))

NextSyntax ==
    \/ \E view \in Views, syntax \in Syntaxes : SetSyntax(view, syntax)
    \/ \E view \in Views : CheckSyntax(view)
    \/ \E view \in Views : OnLoad(view)
    \/ \E view \in Views, size \in {0, 1} : OnModified(view, size)
    \/ \E p \in pending : QueueRun(p)
    \/ \E i \in 1..MaxInflight : Complete(i, {"pep8", "pyflakes"})

SpecSyntax == InitSyntax /\ [][NextSyntax]_vars

\* The editor's events on one open view, under every setting: nothing lints
\* the view but on_activated, on_modified and on_post_save of its file.
InitEvents == Is(Fresh({1}))

NextEvents ==
    \/ \E mode \in LintModes, show \in BOOLEAN : LoadSettings(mode, show)
    \/ \E view \in Views, syntax \in Syntaxes : SetSyntax(view, syntax)
    \/ \E view \in Views : OnActivated(view)
    \/ \E view \in Views, size \in {0, 1} : OnModified(view, size)
    \/ \E view \in Views : OnPostSave(view, "file", <<view>>)
    \/ \E p \in pending : QueueRun(p)
    \/ \E i \in 1..MaxInflight : Complete(i, {"pep8", "pyflakes"})

SpecEvents == InitEvents /\ [][NextEvents]_vars

\* One open view in 'background' mode that is activated, edited and closed,
\* with a queue whose worker thread runs every pending request once its
\* delay is over, and analyses that all complete.
InitLive == Is(Fresh({1}))

QueueRuns == \E p \in pending : QueueRun(p)

Completes == \E i \in 1..MaxInflight, dirty \in Findings : Complete(i, dirty)

NextLive ==
    \/ \E view \in Views : OnActivated(view)
    \/ \E view \in Views, size \in {0, 1} : OnModified(view, size)
    \/ \E view \in Views : OnClose(view)
    \/ QueueRuns
    \/ Completes

SpecLive ==
    InitLive /\ [][NextLive]_vars /\ WF_vars(QueueRuns) /\ WF_vars(Completes)

\* What an analysis leaves in a linter that reported on every line of
\* `lines`: one error (column, message) and one mark on each.
LinterOn(name, lines) ==
    LET col == IF name = "pep8" THEN 4 ELSE 0
    IN  [name |-> name, highlight |-> {<<line, col>> : line \in lines},
         errors |-> [line \in lines |-> << <<col, name>> >>]]

\* The linters handed to highlight() when pep8 reported on the lines
\* found.pep8 and pyflakes on the lines found.pyflakes.
ResultsOn(found) ==
    <<LinterOn("pep8", found.pep8), LinterOn("pyflakes", found.pyflakes)>>

\* Both views are open and bound, the cursor of each is on at[view], and
\* highlight() has applied to each the results of pep8 on the lines
\* found[view].pep8 and of pyflakes on the lines found[view].pyflakes.
Applied(found, at) ==
    LET s0 == [Fresh(Views) EXCEPT !.cursor = at]
        s1 == on_new(on_new(s0, 1), 2)
        s2 == highlight(s1, 1, ResultsOn(found[1]), None)
        s3 == highlight(s2, 2, ResultsOn(found[2]), None)
    IN  [s3 EXCEPT !.last = NoCall]

\* An analysis of the view completes with these results, not linked to a
\* hit: lint_view calls back highlight(view, linters, None).
Commit(view, found) ==
    /\ view \in alive
    /\ Becomes(highlight(Call(St, "highlight", view), view, ResultsOn(found), None))

\* The status text, for every diagnostics mapping of up to two errors a line
\* and every cursor line.
InitStatus ==
    \E found \in [Views -> [pep8 : SUBSET Lines, pyflakes : SUBSET Lines]],
       at \in [Views -> CursorLines] :
        Is(Applied(found, at))

NextStatus ==
    \/ \E view \in Views, lineno \in CursorLines :
          OnSelectionModified(view, lineno)
    \/ \E view \in Views, found \in [pep8 : SUBSET Lines, pyflakes : SUBSET Lines] :
          Commit(view, found)

SpecStatus == InitStatus /\ [][NextStatus]_vars

---------------------------------------------------------------------------
(* The claims *)

\* C1 (as stated): a completion whose hit_time is older than the stored
\* last_hit_times[vid] changes nothing: persist.errors, persist.highlights,
\* the drawn marks and the status text are after highlight() what they were
\* before it.
C1_StaleCompletionChangesNothing ==
    [][(/\ last'.op = "highlight"
        /\ last'.hit_time # None
        /\ last'.vid \in DOMAIN last_hit_times
        /\ last'.hit_time < last_hit_times[last'.vid])
       => /\ persist_errors' = persist_errors
          /\ persist_highlights' = persist_highlights
          /\ drawn' = drawn
          /\ status' = status]_vars

\* C2 (as stated): once the results of a request started later have been
\* applied to an open view, the completion of a request started earlier is
\* discarded: it replaces neither the stored diagnostics nor the drawn marks.
C2_LateCompletionDiscarded ==
    [][(last'.op = "highlight" /\ last'.vid \in alive /\ last'.late)
       => /\ persist_errors' = persist_errors
          /\ drawn' = drawn]_vars

\* C3 (as stated): after hit() on an empty view, and while the view stays
\* empty, highlight() applies no diagnostics and no marks to it.
C3_NothingAppliedWhileEmpty ==
    (last.op = "highlight" /\ last.vid \in hit_empty /\ last.committed)
        => /\ DOMAIN persist_errors[last.vid] = {}
           /\ drawn[last.vid] = {}

\* C4: a hit() on an empty view leaves every linter bound to the view
\* cleared, mints no timestamp for it and leaves the view's pending request,
\* if any, as it was.
C4_EmptyHitClearsAndEnqueuesNothing ==
    [][\A v \in last'.hits :
          view_size'[v] = 0 =>
            /\ \A i \in 1..Len(Get(persist_linters', v, <<>>)) :
                  persist_linters'[v][i] = CleanLinter(persist_linters'[v][i].name)
            /\ v \notin last'.minted
            /\ {p \in pending' : p[1] = v} = {p \in pending : p[1] = v}]_vars

\* C4's case: hit() ran on an empty view that has linters bound and a
\* request pending from an earlier hit.
C4_Witness ==
    \E v \in last.hits :
        /\ view_size[v] = 0
        /\ v \in DOMAIN persist_linters
        /\ \E p \in pending : p[1] = v

\* C5 (as stated): a completion for a closed view is discarded: afterwards
\* nothing is stored, drawn or shown for the purged id.
C5_CompletionForClosedViewDiscarded ==
    (last.op = "highlight" /\ last.vid \notin alive)
        => /\ ~last.committed
           /\ last.vid \notin DOMAIN persist_errors
           /\ last.vid \notin DOMAIN persist_highlights
           /\ drawn[last.vid] = {}
           /\ status[last.vid] = NoStatus

\* C6: on_close raises nothing, leaves the id in none of loaded_views,
\* linted_views, view_syntax and last_hit_times, and leaves every other
\* view's entries in the four tables as they were.
C6_PurgeCompleteness ==
    [][last'.op = "on_close" =>
        LET vid == last'.vid
        IN  /\ ~last'.raised
            /\ vid \notin loaded_views'
            /\ vid \notin linted_views'
            /\ vid \notin DOMAIN view_syntax'
            /\ vid \notin DOMAIN last_hit_times'
            /\ loaded_views' \ {vid} = loaded_views \ {vid}
            /\ linted_views' \ {vid} = linted_views \ {vid}
            /\ Del(view_syntax', vid) = Del(view_syntax, vid)
            /\ Del(last_hit_times', vid) = Del(last_hit_times, vid)]_vars

\* C6's case: a view was closed while the other view has an entry in each
\* of the four tables.
C6_Witness ==
    /\ last.op = "on_close"
    /\ \E w \in Views \ {last.vid} :
          /\ w \in loaded_views
          /\ w \in linted_views
          /\ w \in DOMAIN view_syntax
          /\ w \in DOMAIN last_hit_times

\* C7 (as stated): every hit() on a view that was hit before stores a
\* timestamp strictly greater than the stored one, and no step lowers a
\* stored last_hit_times[vid].
C7_HitTimesIncrease ==
    [][/\ \A v \in last'.hits :
            v \in DOMAIN last_hit_times =>
                /\ v \in DOMAIN last_hit_times'
                /\ last_hit_times'[v] > last_hit_times[v]
       /\ \A v \in (DOMAIN last_hit_times) \cap (DOMAIN last_hit_times') :
            last_hit_times'[v] >= last_hit_times[v]]_vars

\* C8 (as stated), for a completion whose view was hit after the request
\* was started: delivered for an open view, it carries a hit time no greater
\* than the stored last_hit_times[vid], and its results are applied only
\* when the two are equal.
C8_AppliedOnlyWhenLatest ==
    (last.op = "highlight" /\ last.vid \in alive /\ last.newer
        /\ last.vid \in DOMAIN last_hit_times)
        => /\ last.hit_time <= last_hit_times[last.vid]
           /\ last.committed => last.hit_time = last_hit_times[last.vid]

\* C9: a view has at most one pending request; the pending request of a view
\* carries the view's last_hit_times entry; and when the queue runs a
\* request, lint() is executed once, with that timestamp, and nothing is
\* left pending for the view.
C9_Debounce ==
    /\ \A v \in Views : Cardinality({p \in pending : p[1] = v}) <= 1
    /\ \A p \in pending :
          p[1] \in DOMAIN last_hit_times => p[2] = last_hit_times[p[1]]
    /\ last.op = "queue_run" =>
          /\ ~\E p \in pending : p[1] = last.vid
          /\ last.vid \in DOMAIN last_hit_times =>
                last.hit_time = last_hit_times[last.vid]
          /\ last.vid \in alive =>
                /\ inflight # <<>>
                /\ inflight[Len(inflight)].vid = last.vid
                /\ inflight[Len(inflight)].hit_time = last.hit_time

\* C9's case: a hit replaced the request pending from an earlier hit, and
\* the one request left carries the later timestamp.
C9_Witness ==
    /\ last.folded
    /\ \E v \in last.minted :
          /\ last_hit_times[v] >= 2
          /\ {p \in pending : p[1] = v} = {<<v, last_hit_times[v]>>}

\* C10 (as stated): whenever the syntax recorded for a view that has
\* diagnostics changes to another value, the view's stored diagnostics and
\* drawn marks are cleared in the same step.
C10_SyntaxChangeClears ==
    [][\A v \in (DOMAIN view_syntax) \cap (DOMAIN view_syntax') :
          (/\ view_syntax'[v] # view_syntax[v]
           /\ v \in DOMAIN persist_errors
           /\ DOMAIN persist_errors[v] # {})
          => /\ v \notin DOMAIN persist_errors'
             /\ drawn'[v] = {}]_vars

\* C11: check_syntax(view) returns True exactly when no syntax is recorded
\* for the view or the recorded one differs from the view's syntax; it
\* changes view_syntax[vid] exactly then, to the view's syntax; when it
\* returns False it changes nothing; and a second call right after it
\* returns False and changes nothing.
C11_CheckSyntaxReturn ==
    /\ [](last.op = "check_syntax" =>
            check_syntax(St, last.vid) = [st |-> St, ret |-> FALSE])
    /\ [][last'.op = "check_syntax" =>
            LET vid == last'.vid
                differs == \/ vid \notin DOMAIN view_syntax
                           \/ view_syntax[vid] # view_syn[vid]
            IN  /\ (vid \in last'.changed) <=> differs
                /\ (view_syntax' # view_syntax) <=> differs
                /\ vid \in DOMAIN view_syntax'
                /\ view_syntax'[vid] = view_syn[vid]
                /\ Del(view_syntax', vid) = Del(view_syntax, vid)
                /\ ~differs =>
                      UNCHANGED <<alive, view_size, view_syn, cursor, lint_mode,
                                  show_errors_on_save, loaded_views, linted_views,
                                  view_syntax, last_hit_times, persist_linters,
                                  persist_errors, persist_highlights, drawn,
                                  status, clock, pending, inflight, hit_empty>>]_vars

\* C11's case: check_syntax() returned True for a view whose recorded syntax
\* was another one, and the view has diagnostics in flight.
C11_Witness ==
    /\ last.op = "check_syntax"
    /\ last.vid \in last.changed
    /\ view_syntax[last.vid] = "plain"
    /\ inflight # <<>>

\* C12 (as stated): a step of on_activated, on_modified or on_post_save that
\* leaves an open view without bound linters (its id not in persist.linters)
\* has neither minted a queue timestamp for it nor started an analysis.
C12_UnboundViewNeverAnalyzed ==
    [][last'.op \in {"handler", "on_modified"} =>
          \A v \in alive :
              v \notin DOMAIN persist_linters' =>
                  /\ v \notin last'.minted
                  /\ {p \in pending' : p[1] = v} \subseteq pending
                  /\ Len(inflight') <= Len(inflight)]_vars

\* The number of diagnostics of `errors` on the lines of `lines`.
RECURSIVE Diagnostics(_, _)
Diagnostics(errors, lines) ==
    IF lines = {} THEN 0
    ELSE LET line == CHOOSE l \in lines : TRUE
         IN  Len(errors[line]) + Diagnostics(errors, lines \ {line})

\* C13: for a non-empty diagnostics mapping with T diagnostics and a cursor
\* line with n of them: when n >= 1 and T > 1 the status is "first-last of T
\* errors" (n > 1) or "first of T errors" (n = 1), with first = 1 + the
\* number of diagnostics on smaller lines and last = first + n - 1 <= T, and
\* it lists the n messages of the line; when n >= 1 and T = 1 it is "Error:"
\* with the message; when n = 0 (no selection included) it is "T error(s)";
\* and two views with the same mapping and cursor line show the same status.
C13_StatusFormat ==
    /\ \A v \in Views :
          (v \in DOMAIN persist_errors /\ DOMAIN persist_errors[v] # {}) =>
            LET errors == persist_errors[v]
                lineno == cursor[v]
                T == Diagnostics(errors, DOMAIN errors)
                n == IF lineno \in DOMAIN errors THEN Len(errors[lineno]) ELSE 0
                before == Diagnostics(errors, {l \in DOMAIN errors : l < lineno})
                messages == IF n = 0 THEN {}
                            ELSE {errors[lineno][i][2] : i \in 1..n}
                shown == {status[v].msgs[i] : i \in 1..Len(status[v].msgs)}
            IN  /\ (n >= 1 /\ T > 1) =>
                      /\ status[v].kind = IF n > 1 THEN "range" ELSE "one"
                      /\ status[v].first = 1 + before
                      /\ status[v].last = status[v].first + n - 1
                      /\ status[v].last <= T
                      /\ status[v].count = T
                      /\ Len(status[v].msgs) = n
                      /\ shown = messages
                /\ (n >= 1 /\ T = 1) =>
                      /\ status[v].kind = "error"
                      /\ Len(status[v].msgs) = 1
                      /\ shown = messages
                /\ n = 0 =>
                      /\ status[v].kind = "count"
                      /\ status[v].count = T
                      /\ status[v].plural = (T > 1)
                      /\ status[v].msgs = <<>>
    /\ \A v, w \in Views :
          (/\ v \in DOMAIN persist_errors /\ w \in DOMAIN persist_errors
           /\ persist_errors[v] = persist_errors[w]
           /\ cursor[v] = cursor[w]) => status[v] = status[w]

\* C13's case: the cursor was moved to the second line, where two linters
\* reported, below a line with one diagnostic: "2-3 of 3 errors".
C13_Witness ==
    /\ last.op = "handler"
    /\ \E v \in Views :
          /\ cursor[v] = 1
          /\ status[v].kind = "range"
          /\ status[v].first = 2
          /\ status[v].last = 3
          /\ status[v].count = 3

C15_CommitIdempotent ==
    /\ [](\A v \in alive, found \in [pep8 : SUBSET Lines, pyflakes : SUBSET Lines] :
            LET linters == ResultsOn(found)
                once == highlight(St, v, linters, None)
                twice == highlight(once, v, linters, None)
            IN  /\ twice.drawn = once.drawn
                /\ twice.persist_highlights = once.persist_highlights
                /\ twice.persist_errors = once.persist_errors
                /\ once.drawn[v] = linters[1].highlight \cup linters[2].highlight)
    /\ [][(last'.op = "highlight" /\ last'.committed) =>
            /\ drawn'[last'.vid] = Marks(persist_highlights'[last'.vid])
            /\ (/\ last'.vid \in DOMAIN persist_highlights
                /\ persist_highlights'[last'.vid] = persist_highlights[last'.vid])
               => drawn' = drawn]_vars

\* C15's case: highlight() committed again, on a view that holds the
\* results of an earlier commit: only the mark of pep8 on the second line
\* is drawn.
C15_Witness ==
    /\ last.op = "highlight"
    /\ last.committed
    /\ drawn[last.vid] = {<<1, 4>>}

\* C16 (as stated): when on_modified() has run for a non-empty open view
\* while an analysis of it was in flight, the completion of that analysis
\* right after it draws no marks and stores no diagnostics, in every
\* lint_mode.
C16_ModifiedSinceNotApplied ==
    [][(/\ last.op = "on_modified"
        /\ last'.op = "highlight"
        /\ last'.vid = last.vid
        /\ last'.vid \in alive
        /\ view_size[last'.vid] # 0)
       => /\ ~last'.committed
          /\ persist_errors' = persist_errors
          /\ drawn' = drawn]_vars

\* C17 (as stated): on_modified() of a view with bound linters hits it
\* whatever the lint_mode when its syntax has changed; when the syntax has
\* not changed it hits it if and only if lint_mode is 'background', and
\* otherwise clears its diagnostics and enqueues nothing.
C17_SyntaxChangeAlwaysHits ==
    [][last'.op = "on_modified" =>
        LET v == last'.vid
            changed == \/ v \notin DOMAIN view_syntax
                       \/ view_syntax[v] # view_syn[v]
        IN  v \in DOMAIN persist_linters =>
              /\ changed => v \in last'.hits
              /\ ~changed =>
                    /\ (v \in last'.hits) <=> (lint_mode = "background")
                    /\ lint_mode # "background" =>
                          /\ v \notin DOMAIN persist_errors'
                          /\ drawn'[v] = {}
                          /\ pending' = pending
                          /\ inflight' = inflight]_vars

\* C17 (amended): on_modified() of a view without bound linters calls
\* check_syntax(): when the syntax has changed it hits the view whatever the
\* lint_mode, and otherwise it changes nothing.  For a view with bound
\* linters the syntax is not looked at and lint_mode alone governs: the
\* view is hit if and only if lint_mode is 'background', and otherwise its
\* diagnostics are cleared, nothing is enqueued and the recorded syntax
\* stays as it is.
C17_OnModifiedPrecedence ==
    [][last'.op = "on_modified" =>
        LET v == last'.vid
            changed == \/ v \notin DOMAIN view_syntax
                       \/ view_syntax[v] # view_syn[v]
        IN  /\ v \notin DOMAIN persist_linters =>
                /\ changed => (v \in last'.hits /\ v \in last'.changed)
                /\ ~changed =>
                      /\ last'.hits = {}
                      /\ UNCHANGED <<view_syntax, last_hit_times, persist_linters,
                                     persist_errors, persist_highlights, drawn,
                                     status, clock, pending, inflight,
                                     linted_views, loaded_views>>
            /\ v \in DOMAIN persist_linters =>
                /\ (v \in last'.hits) <=> (lint_mode = "background")
                /\ lint_mode # "background" =>
                      /\ v \notin DOMAIN persist_errors'
                      /\ drawn'[v] = {}
                      /\ last'.changed = {}
                      /\ UNCHANGED <<view_syntax, last_hit_times, clock,
                                     pending, inflight>>]_vars

\* C17's case: on_modified() ran, not in 'background' mode, for a view with
\* bound linters whose syntax was no longer the recorded one; it did not hit
\* the view and the recorded syntax is still the old one.
C17_Witness ==
    /\ last.op = "on_modified"
    /\ last.hits = {}
    /\ lint_mode # "background"
    /\ last.vid \in DOMAIN persist_linters
    /\ last.vid \in DOMAIN view_syntax
    /\ view_syntax[last.vid] # view_syn[last.vid]

\* C18: once hit() has left a request with timestamp t pending for an open
\* view, and unless the view is hit again or closed, highlight() eventually
\* applies the results of the analysis that carries t.
C18_LatestHitEventuallyApplied ==
    \A v \in Views, t \in 1..MaxTime :
        (v \in alive /\ <<v, t>> \in pending /\ Get(last_hit_times, v, None) = t)
        ~> \/ /\ last.op = "highlight"
              /\ last.vid = v
              /\ last.hit_time = t
              /\ last.committed
              /\ v \in DOMAIN persist_errors
           \/ v \notin alive
           \/ Get(last_hit_times, v, None) # t

\* C18's case: the results of the analysis of the view's second hit were
\* applied while the view was open and not hit again.
C18_Witness ==
    /\ last.op = "highlight"
    /\ last.committed
    /\ last.hit_time = 2
    /\ last.vid \in alive
    /\ last_hit_times[last.vid] = 2
    /\ DOMAIN persist_errors[last.vid] # {}

\* C19: once check_syntax() has recorded a syntax change for a view, in a
\* handler that called hit() for no view, highlight() applies no result of a
\* request that was hit before the change: it leaves the view's diagnostics
\* and highlights as the change left them.
C19_StaleSyntaxNotApplied ==
    [][\A v \in Views :
          (/\ v \in last.changed
           /\ last.minted = {}
           /\ last'.op = "highlight"
           /\ last'.vid = v
           /\ last'.hit_time # None)
          => /\ ~last'.committed
             /\ persist_errors' = persist_errors
             /\ persist_highlights' = persist_highlights
             /\ drawn' = drawn]_vars

\* C20: while lint_mode is 'manual', no handler of an editor event
\* (on_modified, on_activated, on_post_save) calls persist.queue.hit or
\* lint(): none mints a timestamp and none starts an analysis.
C20_ManualModeStartsNothing ==
    [][(/\ lint_mode = "manual"
        /\ lint_mode' = "manual"
        /\ last'.op \in {"handler", "on_modified"})
       => /\ last'.minted = {}
          /\ inflight' = inflight]_vars

====
